---- MODULE Spec2Model ----
(***************************************************************************)
(* Dependency-graph scheduling of the gastown-bridge WASM plugins:         *)
(*   - critical.rs: critical_path_internal, topo_sort_kahn,                *)
(*     build_critical_path (the CPM analyzer, ComputeCriticalPath);        *)
(*   - molecule.rs: generate_molecule_internal, topological_sort           *)
(*     (the molecule generator, BuildMolecule).                            *)
(* Option<T> is a sequence of length <= 1, a Vec is a sequence, a HashMap  *)
(* is a function whose DOMAIN is the set of inserted keys.  Durations are  *)
(* far below 2^32, so the u32 additions of the forward pass never wrap.    *)
(***************************************************************************)
EXTENDS Integers, Sequences, FiniteSets, TLC

\* ------------------------------------------------------------- bounds
MaxNodes == 2      \* nodes of an unconstrained ComputeCriticalPath input
MaxRefs == 2       \* entries of a blocked_by / blocks list of such an input
MaxSymNodes == 3   \* nodes of a unique-id, symmetric input
MaxDuration == 2   \* largest explicit duration
MaxSteps == 3      \* steps of a formula
MaxNeeds == 2      \* entries of a step's needs list
MaxLegs == 2       \* legs of a formula

IdPool == <<"a", "b", "c", "d", "e", "f">>
Dangling == "x"    \* an id that no node carries

\* ------------------------------------------------------------- helpers
None == <<>>
Some(v) == <<v>>
unwrap_or(opt, d) == IF opt = <<>> THEN d ELSE opt[1]
saturating_sub(a, b) == IF a >= b THEN a - b ELSE 0

EmptyMap == [k \in {} |-> 0]
Insert(m, k, v) == [x \in (DOMAIN m) \cup {k} |-> IF x = k THEN v ELSE m[x]]
Elems(seq) == {seq[i] : i \in DOMAIN seq}
MaxOf(S) == CHOOSE m \in S : \A x \in S : x <= m
MinOf(S) == CHOOSE m \in S : \A x \in S : m <= x
Perms(S) == {f \in [1..Cardinality(S) -> S] : \A x \in S : \E i \in DOMAIN f : f[i] = x}
Count(seq, x) == Cardinality({i \in DOMAIN seq : seq[i] = x})

VARIABLES
    beads,            \* critical_path_internal: the &[BeadNode] argument
    pc,               \* position in critical_path_internal / build_critical_path
    topo_order,
    earliest_start,
    earliest_finish,
    latest_start,
    latest_finish,
    project_duration,
    slack,
    critical_nodes,
    path,             \* build_critical_path: path
    current,          \* build_critical_path: current
    found,            \* build_critical_path: critical_succ
    result,           \* the Result<CriticalPathResult, JsValue> returned
    run,              \* 1 for the first call, 2 for the repeated call on the same input
    first,            \* the result of the first call
    formula,          \* generate_molecule_internal: cooked.formula (steps, legs)
    bpc,              \* position in generate_molecule_internal / topological_sort
    mbeads,           \* generate_molecule_internal: beads, indexed from 0
    id_to_index,
    in_degree_correct,
    queue,
    order,            \* topological_sort: result
    processed,
    molecule          \* the Molecule returned

cpmVars == <<beads, pc, topo_order, earliest_start, earliest_finish, latest_start,
             latest_finish, project_duration, slack, critical_nodes, path, current,
             found, result, run, first>>

bldVars == <<formula, bpc, mbeads, id_to_index, in_degree_correct, queue, order,
             processed, molecule>>

vars == <<cpmVars, bldVars>>

\* ------------------------------------------------------------- critical.rs
NoResult == [tag |-> "none"]
Err(msg) == [tag |-> "Err", msg |-> msg]
OkResult(p, d, s) == [tag |-> "Ok", path |-> p, total_duration |-> d, slack |-> s]
OkOrder(o) == [tag |-> "Ok", order |-> o]

BeadIds(bs) == {bs[i].id : i \in DOMAIN bs}

\* id_to_bead: HashMap::insert keeps the last bead carrying an id
id_to_bead(bs, id) == bs[MaxOf({i \in DOMAIN bs : bs[i].id = id})]
id_to_duration(bs, id) == unwrap_or(id_to_bead(bs, id).duration, 1)

\* in_degree after the first loop of topo_sort_kahn: one increment of the bead's
\* own id per blocked_by entry
blocker_slots(bs) == UNION {{<<i, j>> : j \in DOMAIN bs[i].blocked_by} : i \in DOMAIN bs}
in_degree(bs) ==
    [id \in BeadIds(bs) |-> Cardinality({p \in blocker_slots(bs) : bs[p[1]].id = id})]

\* successors[x] after the first loop of topo_sort_kahn, from bead i on
RECURSIVE successors(_, _, _)
successors(bs, x, i) ==
    IF i > Len(bs) THEN <<>>
    ELSE [k \in 1..Count(bs[i].blocked_by, x) |-> bs[i].id] \o successors(bs, x, i + 1)

\* the inner for loop over succs of one dequeued id
RECURSIVE visit_succs(_, _, _)
visit_succs(succs, deg, q) ==
    IF succs = <<>> THEN [deg |-> deg, queue |-> q]
    ELSE LET s == Head(succs) IN
         IF s \in DOMAIN deg
         THEN LET d == deg[s] - 1 IN
              visit_succs(Tail(succs), [deg EXCEPT ![s] = d],
                          IF d = 0 THEN Append(q, s) ELSE q)
         ELSE visit_succs(Tail(succs), deg, q)

\* the while-let loop of topo_sort_kahn
RECURSIVE kahn_loop(_, _, _, _)
kahn_loop(bs, q, deg, res) ==
    IF q = <<>> THEN res
    ELSE LET id == Head(q)
             v == visit_succs(successors(bs, id, 1), deg, Tail(q))
         IN kahn_loop(bs, v.queue, v.deg, Append(res, id))

\* mutant of kahn_result: the length check is missing
kahn_result_unchecked(bs, res) == OkOrder(res)

\* the final length check of topo_sort_kahn
kahn_result(bs, res) ==
    IF Len(res) # Len(bs) THEN Err("Cycle detected in dependency graph") ELSE OkOrder(res)

\* The ready queue is seeded by iterating the in_degree HashMap, whose order is
\* unspecified: every order of the zero-degree ids is possible.
SeedOrders(bs) == Perms({id \in BeadIds(bs) : in_degree(bs)[id] = 0})

topo_sort_kahn(bs, seed) == kahn_result(bs, kahn_loop(bs, seed, in_degree(bs), <<>>))

\* mutant of es_of: the earliest instead of the latest finish of the dependencies
es_of_min(bead, ef) ==
    IF bead.blocked_by = <<>> THEN 0
    ELSE LET got == {ef[dep] : dep \in Elems(bead.blocked_by) \cap DOMAIN ef}
         IN IF got = {} THEN 0 ELSE MinOf(got)

\* forward pass, one node
es_of(bead, ef) ==
    IF bead.blocked_by = <<>> THEN 0
    ELSE LET got == {ef[dep] : dep \in Elems(bead.blocked_by) \cap DOMAIN ef}
         IN IF got = {} THEN 0 ELSE MaxOf(got)

RECURSIVE forward_pass(_, _, _, _)
forward_pass(bs, ord, es, ef) ==
    IF ord = <<>> THEN [es |-> es, ef |-> ef]
    ELSE LET id == Head(ord)
             s == es_of(id_to_bead(bs, id), ef)
             f == s + id_to_duration(bs, id)
         IN forward_pass(bs, Tail(ord), Insert(es, id, s), Insert(ef, id, f))

project_duration_of(ef) == IF DOMAIN ef = {} THEN 0 ELSE MaxOf({ef[k] : k \in DOMAIN ef})

\* mutant of lf_of: the latest instead of the earliest start of the successors
lf_of_max(bead, ls, pd) ==
    IF bead.blocks = <<>> THEN pd
    ELSE LET got == {ls[succ] : succ \in Elems(bead.blocks) \cap DOMAIN ls}
         IN IF got = {} THEN pd ELSE MaxOf(got)

\* backward pass, one node
lf_of(bead, ls, pd) ==
    IF bead.blocks = <<>> THEN pd
    ELSE LET got == {ls[succ] : succ \in Elems(bead.blocks) \cap DOMAIN ls}
         IN IF got = {} THEN pd ELSE MinOf(got)

\* ord is consumed from its end (topo_order.iter().rev())
RECURSIVE backward_pass(_, _, _, _, _)
backward_pass(bs, ord, pd, ls, lf) ==
    IF ord = <<>> THEN [ls |-> ls, lf |-> lf]
    ELSE LET id == ord[Len(ord)]
             f == lf_of(id_to_bead(bs, id), ls, pd)
             s == saturating_sub(f, id_to_duration(bs, id))
         IN backward_pass(bs, SubSeq(ord, 1, Len(ord) - 1), pd,
                          Insert(ls, id, s), Insert(lf, id, f))

slack_of(es, ls, id) ==
    saturating_sub(IF id \in DOMAIN ls THEN ls[id] ELSE 0,
                   IF id \in DOMAIN es THEN es[id] ELSE 0)

slack_map(ord, es, ls) == [id \in Elems(ord) |-> slack_of(es, ls, id)]

critical_of(ord, sl) == SelectSeq(ord, LAMBDA id : sl[id] = 0)

\* build_critical_path: the search for the starting node
has_critical_dep(bead, crit) == \E dep \in Elems(bead.blocked_by) : dep \in Elems(crit)

\* mutant of find_start: the last instead of the first candidate
find_start_last(bs, crit) ==
    LET ok == {i \in DOMAIN crit :
                 /\ crit[i] \in BeadIds(bs)
                 /\ ~has_critical_dep(id_to_bead(bs, crit[i]), crit)}
    IN IF ok = {} THEN None ELSE Some(crit[MaxOf(ok)])

find_start(bs, crit) ==
    LET ok == {i \in DOMAIN crit :
                 /\ crit[i] \in BeadIds(bs)
                 /\ ~has_critical_dep(id_to_bead(bs, crit[i]), crit)}
    IN IF ok = {} THEN None ELSE Some(crit[MinOf(ok)])

\* mutant of critical_succ: the first successor, critical or not
critical_succ_first(bead, crit) ==
    IF bead.blocks = <<>> THEN None ELSE Some(bead.blocks[1])

\* build_critical_path: bead.blocks.iter().find(|succ| critical_set.contains(succ))
critical_succ(bead, crit) ==
    LET ok == {j \in DOMAIN bead.blocks : bead.blocks[j] \in Elems(crit)}
    IN IF ok = {} THEN None ELSE Some(bead.blocks[MinOf(ok)])

\* ------------------------------------------------------------- molecule.rs
\* A Vec indexed from 0 is a function on 0..n-1.  Of a step only id and needs are
\* kept, of a leg only id: title, description, duration and requires are copied
\* into the bead unchanged and read by nothing below.
VecLen(v) == Cardinality(DOMAIN v)
FormulaName == "f"

RECURSIVE Ascending(_)
Ascending(S) ==
    IF S = {} THEN <<>> ELSE <<MinOf(S)>> \o Ascending(S \ {MinOf(S)})

\* id_to_index after the first loop over the steps: a later insert overwrites
step_index(steps) ==
    [id \in {steps[i].id : i \in DOMAIN steps} |->
        MaxOf({i - 1 : i \in {j \in DOMAIN steps : steps[j].id = id}})]

\* step.needs.iter().filter_map(|need| id_to_index.get(need).copied()).collect()
wire(needs, idx) ==
    LET kept == SelectSeq(needs, LAMBDA nd : nd \in DOMAIN idx)
    IN [j \in DOMAIN kept |-> idx[kept[j]]]

step_bead(steps, i) ==
    [labels |-> <<"molecule", FormulaName>>,
     depends_on |-> wire(steps[i + 1].needs, step_index(steps))]

leg_bead(i) ==
    [labels |-> <<"molecule", "convoy", FormulaName>>,
     depends_on |-> IF i > 0 THEN <<i - 1>> ELSE <<>>]

\* beads after both blocks: the step beads, then the leg beads pushed behind them
generate_beads(f) ==
    [k \in 0..(Len(f.steps) + Len(f.legs) - 1) |->
        IF k < Len(f.steps) THEN step_bead(f.steps, k) ELSE leg_bead(k - Len(f.steps))]

\* id_to_index after the loop over the legs
leg_index(f, idx) ==
    [id \in (DOMAIN idx) \cup {f.legs[i].id : i \in DOMAIN f.legs} |->
        IF \E i \in DOMAIN f.legs : f.legs[i].id = id
        THEN MaxOf({i - 1 : i \in {j \in DOMAIN f.legs : f.legs[j].id = id}})
        ELSE idx[id]]

\* mutant of count_deps: a bead with dependencies waits for one of them only
count_deps_one(bs) == [i \in DOMAIN bs |-> IF bs[i].depends_on = <<>> THEN 0 ELSE 1]

\* topological_sort, lines 136-139 (the in_degree vector of lines 124-131 is
\* written and never read)
count_deps(bs) == [i \in DOMAIN bs |-> Len(bs[i].depends_on)]

\* mutant of seed_queue: every bead is seeded, whatever its counter
seed_queue_all(deg) == Ascending(DOMAIN deg)

\* topological_sort, lines 141-146
seed_queue(deg) == Ascending({i \in DOMAIN deg : deg[i] = 0})

\* topological_sort, lines 156-157: the beads the scan decrements after node
scan_hits(bs, proc, node) ==
    {i \in DOMAIN bs : ~proc[i] /\ node \in Elems(bs[i].depends_on)}

\* mutant of Molecule: the cycle flag compares with > instead of !=
Molecule_gt(bs, ord, n) ==
    [tag |-> "Ok", formula_name |-> FormulaName, beads |-> bs,
     has_cycle |-> (Len(ord) > n), execution_order |-> ord]

Molecule(bs, ord, n) ==
    [tag |-> "Ok", formula_name |-> FormulaName, beads |-> bs,
     has_cycle |-> (Len(ord) # n), execution_order |-> ord]

\* ------------------------------------------------------------- inputs
Durations == {None} \cup {Some(d) : d \in 0..MaxDuration}
GenDurations == {None, Some(MaxDuration)}
RefSeqs(S) == UNION {[1..k -> S] : k \in 0..MaxRefs}
GenRefs == {IdPool[j] : j \in 1..MaxNodes} \cup {Dangling}

\* the i-th node of an unconstrained input: ids may repeat, references may dangle,
\* repeat, form cycles, and blocks need not mirror blocked_by
GenNode(i) ==
    [id : {IdPool[j] : j \in 1..i}, duration : GenDurations,
     blocked_by : RefSeqs(GenRefs), blocks : RefSeqs(GenRefs)]

GenNodes == GenNode(MaxNodes)
GenLists(k) == {l \in [1..k -> GenNodes] : \A i \in 1..k : l[i] \in GenNode(i)}

\* unique ids IdPool[1..n]; E is the dependency relation (<<u, v>>: v is blocked by u),
\* cyclic or not; blocked_by lists exactly the predecessors (in id order: the code
\* only tests it for emptiness and membership) and blocks exactly the successors,
\* in any order
SymIds(n) == {IdPool[j] : j \in 1..n}
SymNode(n, E, i) ==
    [id : {IdPool[i]}, duration : Durations,
     blocked_by : {SelectSeq(SubSeq(IdPool, 1, n), LAMBDA u : <<u, IdPool[i]>> \in E)},
     blocks : Perms({v \in SymIds(n) : <<IdPool[i], v>> \in E})]

RECURSIVE SymLists(_, _, _)
SymLists(n, E, k) ==
    IF k = 0 THEN {<<>>}
    ELSE {Append(l, nd) : l \in SymLists(n, E, k - 1), nd \in SymNode(n, E, k)}

\* ------------------------------------------------------------- actions
BuilderIdle ==
    /\ formula = [steps |-> <<>>, legs |-> <<>>]
    /\ bpc = "idle"
    /\ mbeads = EmptyMap
    /\ id_to_index = EmptyMap
    /\ in_degree_correct = EmptyMap
    /\ queue = <<>>
    /\ order = <<>>
    /\ processed = EmptyMap
    /\ molecule = [tag |-> "none"]

CpmLocals ==
    /\ topo_order = <<>>
    /\ earliest_start = EmptyMap
    /\ earliest_finish = EmptyMap
    /\ latest_start = EmptyMap
    /\ latest_finish = EmptyMap
    /\ project_duration = 0
    /\ slack = EmptyMap
    /\ critical_nodes = <<>>
    /\ path = <<>>
    /\ current = ""
    /\ found = None
    /\ result = NoResult
    /\ run = 1
    /\ first = NoResult

InitLocals == BuilderIdle /\ pc = "call" /\ CpmLocals

CpmIdle == beads = <<>> /\ pc = "idle" /\ CpmLocals

Init == (\E k \in 0..MaxNodes : beads \in GenLists(k)) /\ InitLocals
\* nodes without dependencies, with unique ids, whose blocks lists are arbitrary
LooseNode(i) ==
    [id : {IdPool[i]}, duration : GenDurations, blocked_by : {<<>>}, blocks : RefSeqs(GenRefs)]
LooseLists(k) == {l \in [1..k -> GenNodes] : \A i \in 1..k : l[i] \in LooseNode(i)}
InitLoose == (\E k \in 0..MaxNodes : beads \in LooseLists(k)) /\ InitLocals

InitSym ==
    /\ \E n \in 0..MaxSymNodes : \E E \in SUBSET (SymIds(n) \X SymIds(n)) : beads \in SymLists(n, E, n)
    /\ InitLocals

\* critical_path_internal, lines 23-41: the empty input, the lookup maps, the sort
TopoSort ==
    /\ UNCHANGED bldVars
    /\ pc = "call"
    /\ IF beads = <<>>
       THEN /\ result' = OkResult(<<>>, 0, EmptyMap)
            /\ pc' = "done"
            /\ UNCHANGED topo_order
       ELSE \E seed \in SeedOrders(beads) :
              LET r == topo_sort_kahn(beads, seed) IN
              IF r.tag = "Err"
              THEN /\ result' = r
                   /\ pc' = "done"
                   /\ UNCHANGED topo_order
              ELSE /\ topo_order' = r.order
                   /\ pc' = "passes"
                   /\ UNCHANGED result
    /\ UNCHANGED <<beads, earliest_start, earliest_finish, latest_start, latest_finish,
                   project_duration, slack, critical_nodes, path, current, found, run, first>>

\* critical_path_internal, lines 43-103: forward pass, project duration, backward
\* pass, slack and critical nodes
Passes ==
    /\ UNCHANGED bldVars
    /\ pc = "passes"
    /\ LET fw == forward_pass(beads, topo_order, EmptyMap, EmptyMap)
           pd == project_duration_of(fw.ef)
           bw == backward_pass(beads, topo_order, pd, EmptyMap, EmptyMap)
           sl == slack_map(topo_order, fw.es, bw.ls)
       IN /\ earliest_start' = fw.es
          /\ earliest_finish' = fw.ef
          /\ project_duration' = pd
          /\ latest_start' = bw.ls
          /\ latest_finish' = bw.lf
          /\ slack' = sl
          /\ critical_nodes' = critical_of(topo_order, sl)
    /\ pc' = "build"
    /\ UNCHANGED <<beads, topo_order, path, current, found, result, run, first>>

\* build_critical_path, lines 165-198: the empty case, the starting node, the fallback
BuildStart ==
    /\ UNCHANGED bldVars
    /\ pc = "build"
    /\ IF critical_nodes = <<>>
       THEN /\ path' = <<>>
            /\ pc' = "return"
            /\ UNCHANGED current
       ELSE LET start == find_start(beads, critical_nodes) IN
            IF start = None
            THEN /\ path' = critical_nodes
                 /\ pc' = "return"
                 /\ UNCHANGED current
            ELSE /\ path' = <<start[1]>>
                 /\ current' = start[1]
                 /\ pc' = "walk"
    /\ UNCHANGED <<beads, topo_order, earliest_start, earliest_finish, latest_start,
                   latest_finish, project_duration, slack, critical_nodes, found, result, run, first>>

\* The path of one walk that ends visits no id twice, so a path longer than the
\* node list belongs to a walk that never ends; the model stops recording there
\* (the Vec would grow without bound) while the loop goes on.
PathCap(bs) == Len(bs) + 1
push(p, id) == IF Len(p) < PathCap(beads) THEN Append(p, id) ELSE p

\* build_critical_path, lines 200-207: the loop looks up current and searches its
\* blocks for a critical successor
WalkFind ==
    /\ UNCHANGED bldVars
    /\ pc = "walk"
    /\ IF current \notin BeadIds(beads)
       THEN /\ pc' = "return"
            /\ UNCHANGED found
       ELSE /\ found' = critical_succ(id_to_bead(beads, current), critical_nodes)
            /\ pc' = "match"
    /\ UNCHANGED <<beads, topo_order, earliest_start, earliest_finish, latest_start,
                   latest_finish, project_duration, slack, critical_nodes, path, current,
                   result, run, first>>

\* build_critical_path, lines 209-215: push the successor and go on, or break
WalkMatch ==
    /\ UNCHANGED bldVars
    /\ pc = "match"
    /\ IF found = None
       THEN /\ pc' = "return"
            /\ UNCHANGED <<path, current>>
       ELSE /\ path' = push(path, found[1])
            /\ current' = found[1]
            /\ pc' = "walk"
    /\ UNCHANGED <<beads, topo_order, earliest_start, earliest_finish, latest_start,
                   latest_finish, project_duration, slack, critical_nodes, found, result,
                   run, first>>

\* critical_path_internal, lines 108-112
Return ==
    /\ UNCHANGED bldVars
    /\ pc = "return"
    /\ result' = OkResult(path, project_duration, slack)
    /\ pc' = "done"
    /\ UNCHANGED <<beads, topo_order, earliest_start, earliest_finish, latest_start,
                   latest_finish, project_duration, slack, critical_nodes, path, current,
                   found, run, first>>

\* the caller repeats the call on the identical node list
Rerun ==
    /\ UNCHANGED bldVars
    /\ pc = "done"
    /\ run = 1
    /\ first' = result
    /\ run' = 2
    /\ pc' = "call"
    /\ topo_order' = <<>>
    /\ earliest_start' = EmptyMap
    /\ earliest_finish' = EmptyMap
    /\ latest_start' = EmptyMap
    /\ latest_finish' = EmptyMap
    /\ project_duration' = 0
    /\ slack' = EmptyMap
    /\ critical_nodes' = <<>>
    /\ path' = <<>>
    /\ current' = ""
    /\ found' = None
    /\ result' = NoResult
    /\ UNCHANGED beads

\* ------------------------------------------------------------- BuildMolecule
StepRefs == {IdPool[j] : j \in 1..MaxSteps} \cup {Dangling}
NeedSeqs == UNION {[1..k -> StepRefs] : k \in 0..MaxNeeds}
StepAt(i) == [id : {IdPool[j] : j \in 1..i}, needs : NeedSeqs]
StepLists(k) == {l \in [1..k -> StepAt(MaxSteps)] : \A i \in 1..k : l[i] \in StepAt(i)}
LegLists == {[i \in 1..k |-> [id |-> IdPool[i]]] : k \in 0..MaxLegs}

InitBuilder ==
    /\ CpmIdle
    /\ \E k \in 0..MaxSteps : \E st \in StepLists(k) : \E lg \in LegLists :
          formula = [steps |-> st, legs |-> lg]
    /\ bpc = "generate"
    /\ mbeads = EmptyMap
    /\ id_to_index = EmptyMap
    /\ in_degree_correct = EmptyMap
    /\ queue = <<>>
    /\ order = <<>>
    /\ processed = EmptyMap
    /\ molecule = [tag |-> "none"]

\* generate_molecule_internal, lines 63-102
Generate ==
    /\ UNCHANGED cpmVars
    /\ bpc = "generate"
    /\ mbeads' = generate_beads(formula)
    /\ id_to_index' = leg_index(formula, step_index(formula.steps))
    /\ bpc' = "sort"
    /\ UNCHANGED <<formula, in_degree_correct, queue, order, processed, molecule>>

\* topological_sort, lines 118-149; for no beads its early return and lines 107-113
SortInit ==
    /\ UNCHANGED cpmVars
    /\ bpc = "sort"
    /\ IF VecLen(mbeads) = 0
       THEN /\ molecule' = [Molecule(mbeads, <<>>, 0) EXCEPT !.has_cycle = FALSE]
            /\ bpc' = "done"
            /\ UNCHANGED <<in_degree_correct, queue, processed>>
       ELSE /\ in_degree_correct' = count_deps(mbeads)
            /\ queue' = seed_queue(count_deps(mbeads))
            /\ processed' = [i \in DOMAIN mbeads |-> FALSE]
            /\ bpc' = "loop"
            /\ UNCHANGED molecule
    /\ UNCHANGED <<formula, mbeads, id_to_index, order>>

\* topological_sort, lines 151-164: one iteration of the while-let loop
SortStep ==
    /\ UNCHANGED cpmVars
    /\ bpc = "loop"
    /\ queue # <<>>
    /\ LET node == Head(queue)
           proc == [processed EXCEPT ![node] = TRUE]
           hits == scan_hits(mbeads, proc, node)
           deg == [i \in DOMAIN mbeads |->
                     IF i \in hits THEN in_degree_correct[i] - 1 ELSE in_degree_correct[i]]
       IN /\ order' = Append(order, node)
          /\ processed' = proc
          /\ in_degree_correct' = deg
          /\ queue' = Tail(queue) \o Ascending({i \in hits : deg[i] = 0})
    /\ UNCHANGED <<formula, bpc, mbeads, id_to_index, molecule>>

\* topological_sort, lines 166-167, and generate_molecule_internal, lines 107-113
SortDone ==
    /\ UNCHANGED cpmVars
    /\ bpc = "loop"
    /\ queue = <<>>
    /\ molecule' = Molecule(mbeads, order, VecLen(mbeads))
    /\ bpc' = "done"
    /\ UNCHANGED <<formula, mbeads, id_to_index, in_degree_correct, queue, order, processed>>

NextBuilder == Generate \/ SortInit \/ SortStep \/ SortDone
SpecBuilder == InitBuilder /\ [][NextBuilder]_vars

Next == TopoSort \/ Passes \/ BuildStart \/ WalkFind \/ WalkMatch \/ Return
NextTwice == Next \/ Rerun

Spec == Init /\ [][Next]_vars
SpecSym == InitSym /\ [][Next]_vars
SpecTwice == InitSym /\ [][NextTwice]_vars
\* critical_path_internal is straight-line code and loops run by one thread: a step
\* that can be taken is taken
FairSpec == InitLoose /\ [][Next]_vars /\ WF_vars(Next)

\* ------------------------------------------------------------- reference notions
\* (defined from the input alone, independently of the algorithms above)
UniqueIds(bs) == \A i, j \in DOMAIN bs : bs[i].id = bs[j].id => i = j

\* <<u, v>>: node v names the existing node u in its blocked_by
DepEdges(bs) ==
    {e \in BeadIds(bs) \X BeadIds(bs) :
        \E i \in DOMAIN bs : bs[i].id = e[2] /\ e[1] \in Elems(bs[i].blocked_by)}

\* walks of k nodes along dependency edges
Walks(bs, k) ==
    LET E == DepEdges(bs)
    IN {w \in [1..k -> BeadIds(bs)] : \A i \in 1..(k - 1) : <<w[i], w[i + 1]>> \in E}

HasCycle(bs) ==
    \E k \in 2..(Len(bs) + 1) : \E w \in Walks(bs, k) : w[1] = w[k]

\* the dependency chains of an acyclic graph
Chains(bs) == UNION {Walks(bs, k) : k \in 1..Len(bs)}

DurationOf(bs, id) ==
    LET b == bs[CHOOSE i \in DOMAIN bs : bs[i].id = id]
    IN IF b.duration = None THEN 1 ELSE b.duration[1]

RECURSIVE SumDurations(_, _)
SumDurations(bs, ids) ==
    IF ids = <<>> THEN 0 ELSE DurationOf(bs, Head(ids)) + SumDurations(bs, Tail(ids))

LongestChain(bs) ==
    IF bs = <<>> THEN 0 ELSE MaxOf({SumDurations(bs, c) : c \in Chains(bs)})

\* the total duration when the start of node id is delayed by d
DelayedTotal(bs, id, d) ==
    MaxOf({SumDurations(bs, c) + (IF id \in Elems(c) THEN d ELSE 0) : c \in Chains(bs)})

LongestThrough(bs, id) ==
    MaxOf({SumDurations(bs, c) : c \in {x \in Chains(bs) : id \in Elems(x)}})

\* <<d, i>>: bead i lists bead d in depends_on
BeadEdges(bs) == {e \in (DOMAIN bs) \X (DOMAIN bs) : e[1] \in Elems(bs[e[2]].depends_on)}

\* transitive closure of R through the intermediate nodes K
RECURSIVE Closure(_, _)
Closure(R, K) ==
    IF K = {} THEN R
    ELSE LET k == CHOOSE x \in K : TRUE
         IN Closure(R \cup {<<e[1], g[2]>> : e \in {x \in R : x[2] = k}, g \in {x \in R : x[1] = k}},
                    K \ {k})

BeadsCyclic(bs) == \E i \in DOMAIN bs : <<i, i>> \in Closure(BeadEdges(bs), DOMAIN bs)

Built == bpc = "done" /\ molecule.tag = "Ok"

Returned == pc = "done" /\ result.tag = "Ok"

\* ------------------------------------------------------------- claims
\* C1: when the depends_on edges form a DAG, every node of execution_order has
\* each of its dependencies at an earlier position of execution_order.
C1_TopologicalValidity ==
    (Built /\ ~BeadsCyclic(molecule.beads)) =>
        LET eo == molecule.execution_order IN
        \A p \in DOMAIN eo :
            \A d \in Elems(molecule.beads[eo[p]].depends_on) :
                \E q \in 1..(p - 1) : eo[q] = d

C1_Witness ==
    /\ Built
    /\ ~BeadsCyclic(molecule.beads)
    /\ molecule.execution_order = <<2, 1, 0>>
    /\ molecule.beads[0].depends_on = <<1, 2>>

\* C2: execution_order.len() = node_count exactly when the resolved dependency
\* graph is acyclic, and has_cycle is true exactly when it has a cycle, also
\* when a needs list repeats an id.
C2_LengthIffAcyclic ==
    Built =>
        /\ (Len(molecule.execution_order) = VecLen(molecule.beads)) <=> ~BeadsCyclic(molecule.beads)
        /\ molecule.has_cycle <=> BeadsCyclic(molecule.beads)

\* C3: a node list whose blocked_by edges contain a self-reference or a longer
\* cycle makes ComputeCriticalPath return the cycle error; no pass runs and no
\* CriticalPathResult is ever returned.
C3_CycleFailsClosed ==
    HasCycle(beads) =>
        /\ pc \in {"call", "done"}
        /\ result.tag # "Ok"
        /\ pc = "done" => result = Err("Cycle detected in dependency graph")

C3_Witness ==
    /\ pc = "done"
    /\ result.tag = "Err"
    /\ Len(beads) = 3
    /\ beads[1].blocked_by = <<"c">>
    /\ beads[2].blocked_by = <<"a">>
    /\ beads[3].blocked_by = <<"b">>

\* C4: with unique ids and acyclic edges among existing nodes, the operation
\* succeeds even when a blocked_by or blocks entry names an id no node has.
C4_DanglingSucceeds ==
    (pc = "done" /\ UniqueIds(beads) /\ ~HasCycle(beads)) => result.tag = "Ok"

\* C5: two runs on the identical acyclic node list return identical
\* total_duration, slack and critical_path, whatever the iteration order of the
\* in-degree map.
C5_Deterministic ==
    (run = 2 /\ pc = "done" /\ first.tag = "Ok") => result = first

\* C6: ComputeCriticalPath terminates and returns for every finite node list,
\* also when blocks and blocked_by are not symmetric.
C6_Terminates == <>(pc = "done")

\* C7: for acyclic, unique-id, symmetric input total_duration is the largest
\* duration sum of a dependency chain (absent duration counted as 1).
C7_TotalIsLongestChain ==
    Returned => result.total_duration = LongestChain(beads)

C7_Witness ==
    /\ Returned
    /\ Len(beads) = 3
    /\ DepEdges(beads) = {<<"a", "b">>, <<"b", "c">>}
    /\ beads[1].duration = Some(2) /\ beads[2].duration = None /\ beads[3].duration = Some(2)
    /\ result.total_duration = 5

\* C8: for acyclic, unique-id, symmetric input the slack of node n is
\* total_duration minus the duration sum of the longest chain through n: delaying
\* n's start by its slack keeps the total, delaying it by slack + 1 increases it.
C8_SlackIsFloat ==
    Returned =>
        \A id \in BeadIds(beads) :
            /\ id \in DOMAIN result.slack
            /\ result.slack[id] = result.total_duration - LongestThrough(beads, id)
            /\ DelayedTotal(beads, id, result.slack[id]) = result.total_duration
            /\ DelayedTotal(beads, id, result.slack[id] + 1) > result.total_duration

C8_Witness ==
    /\ Returned
    /\ Len(beads) = 3
    /\ DepEdges(beads) = {<<"a", "c">>, <<"b", "c">>}
    /\ beads[1].duration = None /\ beads[2].duration = Some(2)
    /\ result.slack["a"] = 1 /\ result.slack["b"] = 0 /\ result.slack["c"] = 0

\* C9: for non-empty acyclic, unique-id, symmetric input the durations of the
\* nodes in critical_path add up to total_duration.
C9_PathSumIsTotal ==
    (Returned /\ beads # <<>>) => SumDurations(beads, result.path) = result.total_duration

\* C10: every node id in the returned critical_path has slack 0 in the returned
\* slack map.
C10_PathZeroSlack ==
    result.tag = "Ok" =>
        \A i \in DOMAIN result.path :
            /\ result.path[i] \in DOMAIN result.slack
            /\ result.slack[result.path[i]] = 0

C10_Witness ==
    /\ Returned
    /\ result.path # <<>>
    /\ \E id \in DOMAIN result.slack : result.slack[id] > 0 /\ id \notin Elems(result.path)

NoRepeat(seq) == \A i, j \in DOMAIN seq : seq[i] = seq[j] => i = j

\* C11: BuildMolecule never fails on a cycle: when the needs form a self-reference
\* or a longer cycle it returns a Molecule with has_cycle = true and
\* execution_order shorter than the node list; for a two-node mutual pair
\* execution_order is empty.
C11_CycleFlagged ==
    /\ bpc = "done" => molecule.tag = "Ok"
    /\ (Built /\ BeadsCyclic(molecule.beads)) =>
          /\ molecule.has_cycle
          /\ Len(molecule.execution_order) < VecLen(molecule.beads)
          /\ (/\ VecLen(molecule.beads) = 2
              /\ 1 \in Elems(molecule.beads[0].depends_on)
              /\ 0 \in Elems(molecule.beads[1].depends_on)) => molecule.execution_order = <<>>

C11_Witness ==
    /\ Built
    /\ VecLen(molecule.beads) = 2
    /\ molecule.beads[0].depends_on = <<1>>
    /\ molecule.beads[1].depends_on = <<0>>
    /\ molecule.has_cycle
    /\ molecule.execution_order = <<>>

\* C12: the bead of leg i > 0 depends on exactly the bead of leg i - 1, the bead
\* of leg 0 on nothing, also when steps are populated: no leg bead depends on a
\* bead generated from a step.
C12_LegsChainAmongLegs ==
    Built =>
        LET n == Len(formula.steps) IN
        \A i \in 0..(Len(formula.legs) - 1) :
            molecule.beads[n + i].depends_on = IF i > 0 THEN <<n + i - 1>> ELSE <<>>

\* every need of every step names a step declared earlier
NeedsEarlier(f) ==
    \A i \in DOMAIN f.steps :
        \A nd \in Elems(f.steps[i].needs) :
            /\ nd \in DOMAIN step_index(f.steps)
            /\ step_index(f.steps)[nd] < i - 1

\* steps only, distinct ids, each step after the first needs exactly the step
\* declared before it
NeedsChain(f) ==
    /\ f.legs = <<>>
    /\ \A i, j \in DOMAIN f.steps : f.steps[i].id = f.steps[j].id => i = j
    /\ \A i \in DOMAIN f.steps :
          f.steps[i].needs = IF i = 1 THEN <<>> ELSE <<f.steps[i - 1].id>>

DeclarationOrder(n) == [k \in 1..n |-> k - 1]

\* C13 as stated: when every step's needs reference only steps declared earlier,
\* has_cycle = false and execution_order is the declaration order.
C13_DeclarationOrder ==
    (Built /\ NeedsEarlier(formula)) =>
        /\ ~molecule.has_cycle
        /\ molecule.execution_order = DeclarationOrder(VecLen(molecule.beads))

\* C13 as amended: for steps that form a chain in declaration order (no legs,
\* distinct ids, the first step needs nothing, every later step needs exactly
\* the step before it), has_cycle = false and execution_order is the
\* declaration order.
C13_ChainDeclarationOrder ==
    (Built /\ NeedsChain(formula)) =>
        /\ ~molecule.has_cycle
        /\ molecule.execution_order = DeclarationOrder(VecLen(molecule.beads))

C13_Witness ==
    /\ Built
    /\ NeedsChain(formula)
    /\ Len(formula.steps) = 3
    /\ molecule.execution_order = <<0, 1, 2>>
    /\ ~molecule.has_cycle

BeadOf(bs, id) == bs[CHOOSE i \in DOMAIN bs : bs[i].id = id]
ZeroSlack(sl, id) == id \in DOMAIN sl /\ sl[id] = 0
ZeroSlackBlocks(bs, sl, id) ==
    LET bl == BeadOf(bs, id).blocks IN {j \in DOMAIN bl : ZeroSlack(sl, bl[j])}

\* C14: when a zero-slack node without zero-slack predecessor exists, the path
\* starts at the first such node in topological order, every next element is the
\* first zero-slack entry of the previous element's blocks, the last element has
\* no zero-slack entry in its blocks, and (acyclic symmetric input) no id
\* occurs twice.
C14_TieBreak ==
    (Returned /\ beads # <<>>) =>
        LET p == result.path
            sl == result.slack
            starts == {i \in DOMAIN topo_order :
                         /\ ZeroSlack(sl, topo_order[i])
                         /\ \A dep \in Elems(BeadOf(beads, topo_order[i]).blocked_by) :
                               ~ZeroSlack(sl, dep)}
        IN starts # {} =>
              /\ p # <<>>
              /\ p[1] = topo_order[MinOf(starts)]
              /\ \A i \in 1..(Len(p) - 1) :
                    /\ ZeroSlackBlocks(beads, sl, p[i]) # {}
                    /\ p[i + 1] = BeadOf(beads, p[i]).blocks[MinOf(ZeroSlackBlocks(beads, sl, p[i]))]
              /\ ZeroSlackBlocks(beads, sl, p[Len(p)]) = {}
              /\ NoRepeat(p)

C14_Witness ==
    /\ Returned
    /\ Len(beads) = 3
    /\ beads[1].blocks = <<"c", "b">>
    /\ result.slack = [a |-> 0, b |-> 0, c |-> 0]
    /\ topo_order = <<"a", "b", "c">>
    /\ result.path = <<"a", "c">>

\* C15: for every bead list, cyclic or not, with or without repeated entries: no
\* index occurs twice in the result, every listed node has all its dependencies
\* listed earlier, no counter is decremented below zero and no node is enqueued
\* twice.
C15_SortWellFormed ==
    /\ \A i \in DOMAIN in_degree_correct : in_degree_correct[i] >= 0
    /\ NoRepeat(order \o queue)
    /\ \A p \in DOMAIN order :
          \A d \in Elems(mbeads[order[p]].depends_on) : \E q \in 1..(p - 1) : order[q] = d
    /\ Built => molecule.execution_order = order

C15_Witness ==
    /\ Built
    /\ BeadsCyclic(molecule.beads)
    /\ \E i \in DOMAIN molecule.beads : ~NoRepeat(molecule.beads[i].depends_on)
    /\ Len(molecule.execution_order) = 2
    /\ \E i \in DOMAIN in_degree_correct :
          in_degree_correct[i] = 0 /\ molecule.beads[i].depends_on # <<>>

\* C16: for non-empty acyclic unique-id symmetric input some node has slack 0 and
\* critical_path is not empty; its first node has no dependencies (earliest start
\* 0), its last node has no successors and finishes at total_duration; the
\* fallback that returns the whole critical node set is never taken.
C16_PathSourceToSink ==
    /\ pc = "build" =>
          /\ critical_nodes # <<>>
          /\ find_start(beads, critical_nodes) # None
    /\ (Returned /\ beads # <<>>) =>
          LET p == result.path IN
          /\ \E id \in DOMAIN result.slack : result.slack[id] = 0
          /\ p # <<>>
          /\ BeadOf(beads, p[1]).blocked_by = <<>>
          /\ earliest_start[p[1]] = 0
          /\ BeadOf(beads, p[Len(p)]).blocks = <<>>
          /\ earliest_finish[p[Len(p)]] = result.total_duration

C16_Witness ==
    /\ Returned
    /\ Len(beads) = 3
    /\ Len(result.path) = 2
    /\ \E id \in DOMAIN result.slack : result.slack[id] > 0
    /\ earliest_finish[result.path[2]] = result.total_duration
    /\ result.total_duration > 1
====
